---- MODULE Spec2Model ----
(***************************************************************************)
(* Model of the bootcamp REST exercises:                                   *)
(*   semana-2/main.py   in-memory book library (books_db)                  *)
(*   semana-3/routes    in-memory product and user routers                 *)
(*   semana4/main.py    SQLite-backed users, categorias and productos      *)
(* The three are separate applications: `app` says which one is running.   *)
(* Strings are sequences of one-character strings; a Python value that may *)
(* be None is the empty set (None) or a singleton set (the value).         *)
(***************************************************************************)
EXTENDS Integers, Sequences, FiniteSets, TLC

VARIABLES
    app,          \* the application that is running
    pydantic,     \* the major version of pydantic it is installed with
    books_db,     \* semana-2: list of book dicts
    clock,        \* semana-2: the last reading of datetime.now()
    issued,       \* semana-2: the ids create_book has returned, in order
    products_db,  \* semana-3: list of Product models
    users_db,     \* semana-3: list of User models
    users,        \* semana4: rows of table users, in rowid order
    categorias,   \* semana4: rows of table categorias, in rowid order
    productos,    \* semana4: rows of table productos, in rowid order
    request,      \* the last request received
    response,     \* the response to it
    pc,           \* semana-2: where each concurrent create_book coroutine is
    pending,      \* semana-2: the book each suspended create_book holds
    replies,      \* semana-2: what each concurrent create_book returned
    backup        \* semana-2: the backup task each create_book started

semana2 == <<books_db, clock, issued>>
semana3 == <<products_db, users_db>>
semana4 == <<users, categorias, productos>>
tasks == <<pc, pending, replies, backup>>
vars == <<app, pydantic, tasks, semana2, semana3, semana4, request, response>>

\* ---------------------------------------------------------------- bounds
MaxClock == 3
MaxRows == 2
MaxNameLen == 3
MaxDigits == 14
MaxHyphens == 6
MaxSpaces == 2
MaxRequests == 3

\* ------------------------------------------------------- Python values
None == {}
Some(v) == {v}
Val(o) == CHOOSE v \in o : TRUE

Lowers == <<"a", "b">>
Uppers == <<"A", "B">>
Digits == {"0", "1", "2", "3", "4", "5", "6", "7", "8", "9"}
Range(f) == {f[i] : i \in DOMAIN f}

\* str.lower()
LowerChar(c) ==
    IF \E i \in DOMAIN Uppers : Uppers[i] = c
    THEN Lowers[CHOOSE i \in DOMAIN Uppers : Uppers[i] = c]
    ELSE c
UpperChar(c) ==
    IF \E i \in DOMAIN Lowers : Lowers[i] = c
    THEN Uppers[CHOOSE i \in DOMAIN Lowers : Lowers[i] = c]
    ELSE c
lower(s) == [i \in DOMAIN s |-> LowerChar(s[i])]

\* `sub in s`
Contains(sub, s) ==
    \E i \in 1..(Len(s) - Len(sub) + 1) : SubSeq(s, i, i + Len(sub) - 1) = sub

\* s.replace(c, '')
RECURSIVE remove(_, _)
remove(s, c) ==
    IF s = <<>> THEN <<>>
    ELSE IF Head(s) = c THEN remove(Tail(s), c)
    ELSE <<Head(s)>> \o remove(Tail(s), c)

\* str.isdigit()
isdigit(s) == s # <<>> /\ \A i \in DOMAIN s : s[i] \in Digits

\* ------------------------------------------------------- semana-2: books
BookFields ==
    {"title", "author", "isbn", "genre", "pages", "publication_year",
     "status", "rating", "notes"}
BookGenre ==
    {"fiction", "non_fiction", "science", "biography", "history",
     "technology", "other"}
BookStatus == {"to_read", "reading", "finished", "paused"}
CurrentYear == 2025

\* mutant of validate_isbn: the length test alone, as validate_isbn_external
validate_isbn_length_only(v) ==
    IF v # <<>>
    THEN LET clean == remove(remove(v, "-"), " ")
         IN  Len(clean) \in {10, 13}
    ELSE TRUE

\* @validator('isbn'): TRUE when no ValueError is raised
validate_isbn(v) ==
    IF v # <<>>
    THEN LET clean == remove(remove(v, "-"), " ")
         IN  ~(Len(clean) \notin {10, 13} \/ ~isdigit(clean))
    ELSE TRUE

\* BookBase: the Field constraints and the validator
BookBase(book) ==
    /\ book.title # None /\ Len(Val(book.title)) >= 1 /\ Len(Val(book.title)) <= 200
    /\ book.author # None /\ Len(Val(book.author)) >= 1 /\ Len(Val(book.author)) <= 100
    /\ book.isbn # None =>
          /\ Len(Val(book.isbn)) >= 10 /\ Len(Val(book.isbn)) <= 17
          /\ validate_isbn(Val(book.isbn))
    /\ book.genre # None /\ Val(book.genre) \in BookGenre
    /\ book.pages # None => Val(book.pages) >= 1 /\ Val(book.pages) <= 10000
    /\ book.publication_year # None =>
          Val(book.publication_year) >= 1000 /\ Val(book.publication_year) <= CurrentYear
    /\ book.status # None /\ Val(book.status) \in BookStatus
    /\ book.rating # None => Val(book.rating) >= 1 /\ Val(book.rating) <= 5
    /\ book.notes # None => Len(Val(book.notes)) <= 1000

\* BookUpdate: every field Optional, no Field constraint, no validator.
\* An Optional field declared without a default may be left out under
\* pydantic 1 and must be given (null allowed) under pydantic 2.
BookUpdate(updated) ==
    /\ pydantic = 2 => updated.set = BookFields
    /\ updated.val.genre # None => Val(updated.val.genre) \in BookGenre
    /\ updated.val.status # None => Val(updated.val.status) \in BookStatus

\* async validate_isbn_external
validate_isbn_external(isbn) ==
    LET clean == remove(remove(isbn, "-"), " ")
    IN  Len(clean) \in {10, 13}

\* datetime.now(): the wall clock in microseconds; every reading is later than
\* the one before it.  No reading is taken once the clock has reached MaxClock.
Now == {t \in {clock + 1} : t <= MaxClock}

\* book.dict() plus id and the two timestamps
book_dict(book, id, created_at, updated_at) ==
    [title |-> book.title, author |-> book.author, isbn |-> book.isbn,
     genre |-> book.genre, pages |-> book.pages,
     publication_year |-> book.publication_year, status |-> book.status,
     rating |-> book.rating, notes |-> book.notes,
     id |-> id, created_at |-> created_at, updated_at |-> updated_at]

\* index of the first book carrying book_id, 0 when the scan finds none
find_book(book_id) ==
    IF \E i \in DOMAIN books_db : books_db[i].id = book_id
    THEN CHOOSE i \in DOMAIN books_db :
            /\ books_db[i].id = book_id
            /\ \A j \in 1..(i - 1) : books_db[j].id # book_id
    ELSE 0

HTTPException(status_code) == [status |-> status_code, body |-> None]

\* BookResponse, the response_model of the book endpoints: BookBase plus id
\* and the timestamps
BookResponse(b) == BookBase(b)

\* the return value checked against response_model=BookResponse; a value
\* that does not validate is answered with 500
respond(b) ==
    IF BookResponse(b) THEN [status |-> 200, body |-> Some(b)] ELSE HTTPException(500)

\* the same for response_model=List[BookResponse]
respond_list(bs) ==
    IF \A i \in DOMAIN bs : BookResponse(bs[i])
    THEN [status |-> 200, body |-> Some(bs)]
    ELSE HTTPException(500)

create_book(book) ==
    /\ app = "semana2"
    /\ request' = [op |-> "create_book", book |-> book]
    /\ IF ~BookBase(book)
       THEN /\ response' = HTTPException(422)
            /\ UNCHANGED <<books_db, clock, issued>>
       ELSE IF book.isbn # None /\ Val(book.isbn) # <<>>
               /\ ~validate_isbn_external(Val(book.isbn))
       THEN /\ response' = HTTPException(400)
            /\ UNCHANGED <<books_db, clock, issued>>
       ELSE \E now \in Now :
            LET d == book_dict(book, Len(books_db) + 1, now, now)
            IN  /\ books_db' = Append(books_db, d)
                /\ clock' = now
                /\ issued' = Append(issued, d.id)
                /\ response' = respond(d)
    /\ UNCHANGED <<app, pydantic, tasks, semana3, semana4>>

list_books ==
    /\ app = "semana2"
    /\ request' = [op |-> "list_books"]
    /\ response' = respond_list(books_db)
    /\ UNCHANGED <<app, pydantic, tasks, semana2, semana3, semana4>>

get_book(book_id) ==
    /\ app = "semana2"
    /\ request' = [op |-> "get_book", book_id |-> book_id]
    /\ response' = IF find_book(book_id) # 0
                   THEN respond(books_db[find_book(book_id)])
                   ELSE HTTPException(404)
    /\ UNCHANGED <<app, pydantic, tasks, semana2, semana3, semana4>>

\* mutant of updated_dict: created_at is taken from the clock again
updated_dict_restamped(b, book_id, updated, now) ==
    book_dict(updated, book_id, now, now)

\* updated.dict() with id, the stored created_at and a new updated_at
updated_dict(b, book_id, updated, now) ==
    book_dict(updated, book_id, b.created_at, now)

update_book(book_id, updated) ==
    /\ app = "semana2"
    /\ request' = [op |-> "update_book", book_id |-> book_id, book |-> updated]
    /\ IF ~BookBase(updated)
       THEN /\ response' = HTTPException(422)
            /\ UNCHANGED <<books_db, clock>>
       ELSE IF find_book(book_id) = 0
       THEN /\ response' = HTTPException(404)
            /\ UNCHANGED <<books_db, clock>>
       ELSE \E now \in Now :
            LET idx == find_book(book_id)
                d == updated_dict(books_db[idx], book_id, updated, now)
            IN  /\ books_db' = [books_db EXCEPT ![idx] = d]
                /\ clock' = now
                /\ response' = respond(d)
    /\ UNCHANGED <<app, pydantic, tasks, issued, semana3, semana4>>

\* mutant of patch_merge: updated.dict() without exclude_unset
patch_merge_unset_too(b, updated) ==
    [k \in DOMAIN b |-> IF k \in DOMAIN updated.val THEN updated.val[k] ELSE b[k]]

\* the loop `for k, v in updated.dict(exclude_unset=True).items(): b[k] = v`
patch_merge(b, updated) ==
    [k \in DOMAIN b |-> IF k \in updated.set THEN updated.val[k] ELSE b[k]]

patch_book(book_id, updated) ==
    /\ app = "semana2"
    /\ request' = [op |-> "patch_book", book_id |-> book_id, updated |-> updated]
    /\ IF ~BookUpdate(updated)
       THEN /\ response' = HTTPException(422)
            /\ UNCHANGED <<books_db, clock>>
       ELSE IF find_book(book_id) = 0
       THEN /\ response' = HTTPException(404)
            /\ UNCHANGED <<books_db, clock>>
       ELSE \E now \in Now :
            LET idx == find_book(book_id)
                b == [patch_merge(books_db[idx], updated) EXCEPT !.updated_at = now]
            IN  /\ books_db' = [books_db EXCEPT ![idx] = b]
                /\ clock' = now
                /\ response' = respond(b)
    /\ UNCHANGED <<app, pydantic, tasks, issued, semana3, semana4>>

\* books_db.pop(idx)
pop(db, idx) == SubSeq(db, 1, idx - 1) \o SubSeq(db, idx + 1, Len(db))

\* mutant of delete_book: a missing id is answered like a present one
delete_book_lenient(book_id) ==
    /\ app = "semana2"
    /\ request' = [op |-> "delete_book", book_id |-> book_id]
    /\ books_db' = IF find_book(book_id) # 0
                   THEN pop(books_db, find_book(book_id))
                   ELSE books_db
    /\ response' = [status |-> 200, body |-> None]
    /\ UNCHANGED <<app, pydantic, tasks, clock, issued, semana3, semana4>>

delete_book(book_id) ==
    /\ app = "semana2"
    /\ request' = [op |-> "delete_book", book_id |-> book_id]
    /\ IF find_book(book_id) # 0
       THEN /\ books_db' = pop(books_db, find_book(book_id))
            /\ response' = [status |-> 200, body |-> Some(books_db[find_book(book_id)])]
       ELSE /\ response' = HTTPException(404)
            /\ UNCHANGED books_db
    /\ UNCHANGED <<app, pydantic, tasks, clock, issued, semana3, semana4>>

\* ------------------------------- semana-2: create_book requests in flight
\* The event loop runs one coroutine at a time and switches only at an
\* await: create_book is suspended in validate_isbn_external's sleep, and
\* backup_book_data is a task of its own that runs after create_book returned.
Requests == 1..MaxRequests

\* lines 154-159: from `now = datetime.now()` to `return book_dict`, no await
create_book_append(r, book) ==
    \E now \in Now :
        LET d == book_dict(book, Len(books_db) + 1, now, now)
        IN  /\ books_db' = Append(books_db, d)
            /\ clock' = now
            /\ issued' = Append(issued, d.id)
            /\ backup' = [backup EXCEPT ![r] = "sleeping"]
            /\ replies' = [replies EXCEPT ![r] = respond(d)]
            /\ pc' = [pc EXCEPT ![r] = "done"]

\* request r arrives: validation, then either the await of line 151 or, for a
\* book without ISBN, the rest of the handler
create_book_call(r, book) ==
    /\ app = "semana2"
    /\ pc[r] = "new"
    /\ IF ~BookBase(book)
       THEN /\ replies' = [replies EXCEPT ![r] = HTTPException(422)]
            /\ pc' = [pc EXCEPT ![r] = "done"]
            /\ UNCHANGED <<pending, backup, semana2>>
       ELSE IF book.isbn # None /\ Val(book.isbn) # <<>>
       THEN /\ pc' = [pc EXCEPT ![r] = "awaiting"]
            /\ pending' = [pending EXCEPT ![r] = Some(book)]
            /\ UNCHANGED <<replies, backup, semana2>>
       ELSE /\ create_book_append(r, book)
            /\ UNCHANGED pending
    /\ UNCHANGED <<app, pydantic, semana3, semana4, request, response>>

\* validate_isbn_external's sleep is over: lines 151-159
create_book_resume(r) ==
    /\ app = "semana2"
    /\ pc[r] = "awaiting"
    /\ pending' = [pending EXCEPT ![r] = None]
    /\ IF ~validate_isbn_external(Val(Val(pending[r]).isbn))
       THEN /\ replies' = [replies EXCEPT ![r] = HTTPException(400)]
            /\ pc' = [pc EXCEPT ![r] = "done"]
            /\ UNCHANGED <<backup, semana2>>
       ELSE create_book_append(r, Val(pending[r]))
    /\ UNCHANGED <<app, pydantic, semana3, semana4, request, response>>

\* mutant of backup_book_data: the task marks the dict it was handed, which
\* is the dict stored in books_db
backup_book_data_marks(r) ==
    /\ app = "semana2"
    /\ backup[r] = "sleeping"
    /\ \E now \in Now : clock' = now
    /\ backup' = [backup EXCEPT ![r] = "finished"]
    /\ books_db' = [books_db EXCEPT ![Val(replies[r].body).id].status = Some("paused")]
    /\ UNCHANGED <<app, pydantic, pc, pending, replies, issued, semana3,
                   semana4, request, response>>

\* the task create_book started: sleeps, reads the clock for its backup_id
\* and builds a result which nobody awaits
backup_book_data(r) ==
    /\ app = "semana2"
    /\ backup[r] = "sleeping"
    /\ \E now \in Now : clock' = now
    /\ backup' = [backup EXCEPT ![r] = "finished"]
    /\ UNCHANGED <<app, pydantic, pc, pending, replies, books_db, issued,
                   semana3, semana4, request, response>>

\* results[:limit]
slice(results, limit) ==
    SubSeq(results, 1, IF limit < Len(results) THEN limit ELSE Len(results))

\* [b for b in books_db if q.lower() in b[field].lower()]
RECURSIVE matching_books(_, _, _)
matching_books(db, field, q) ==
    IF db = <<>> THEN <<>>
    ELSE IF Contains(lower(q), lower(Val(Head(db)[field])))
         THEN <<Head(db)>> \o matching_books(Tail(db), field, q)
         ELSE matching_books(Tail(db), field, q)

\* search_books_title and search_books_author differ in the field only;
\* None.lower() raises AttributeError, which the server answers with 500
search_books(op, field, q, limit) ==
    /\ app = "semana2"
    /\ request' = [op |-> op, field |-> field, q |-> q, limit |-> limit]
    /\ response' =
          IF Len(q) < 1 \/ limit < 1 \/ limit > 50
          THEN HTTPException(422)
          ELSE IF \E i \in DOMAIN books_db : books_db[i][field] = None
          THEN HTTPException(500)
          ELSE respond_list(slice(matching_books(books_db, field, q), limit))
    /\ UNCHANGED <<app, pydantic, tasks, semana2, semana3, semana4>>

search_books_title(title, limit) ==
    search_books("search_books_title", "title", title, limit)

search_books_author(author, limit) ==
    search_books("search_books_author", "author", author, limit)

\* ------------------------------------------------------ semana-3: routers
IsCased(c) ==
    \/ \E i \in DOMAIN Lowers : Lowers[i] = c
    \/ \E i \in DOMAIN Uppers : Uppers[i] = c

\* str.title(): upper case after an uncased character, lower case after a
\* cased one
title(s) ==
    [i \in DOMAIN s |->
        IF i = 1 \/ ~IsCased(s[i - 1]) THEN UpperChar(s[i]) ELSE LowerChar(s[i])]

\* EmailStr: a local part, one "@", and a domain of "."-separated labels
EmailStr(v) ==
    \E at \in DOMAIN v :
        /\ v[at] = "@"
        /\ \A i \in DOMAIN v : v[i] = "@" => i = at
        /\ at > 1
        /\ \E dot \in (at + 2)..(Len(v) - 1) : v[dot] = "."
        /\ v[Len(v)] # "." /\ v[at + 1] # "."

\* phone pattern ^\+?\d{7,15}$
Phone(v) ==
    LET d == IF v # <<>> /\ Head(v) = "+" THEN Tail(v) ELSE v
    IN  Len(d) >= 7 /\ Len(d) <= 15 /\ \A i \in DOMAIN d : d[i] \in Digits

\* the Field constraints shared by every User schema
UserFields(user) ==
    /\ Len(user.username) >= 3 /\ Len(user.username) <= 50
    /\ EmailStr(user.email)
    /\ user.age # None => Val(user.age) >= 0 /\ Val(user.age) <= 120
    /\ user.phone # None => Phone(Val(user.phone))

\* @validator("username")
username_must_be_capitalized(value) == title(value)

\* models/users.py User: the parsed model, or None when validation fails
User(user) ==
    IF UserFields(user)
    THEN Some([user EXCEPT !.username = username_must_be_capitalized(user.username)])
    ELSE None

\* models/products.py Product
Product(product) ==
    /\ Len(product.name) >= 2 /\ Len(product.name) <= 50
    /\ product.price > 0
    /\ product.quantity >= 0

create_product(product) ==
    /\ app = "semana3"
    /\ Len(products_db) < MaxRows
    /\ request' = [op |-> "create_product", product |-> product]
    /\ IF ~Product(product)
       THEN /\ response' = HTTPException(422)
            /\ UNCHANGED products_db
       ELSE /\ products_db' = Append(products_db, product)
            /\ response' = [status |-> 200, body |-> Some(product)]
    /\ UNCHANGED <<app, pydantic, tasks, semana2, users_db, semana4>>

get_product(product_id) ==
    /\ app = "semana3"
    /\ request' = [op |-> "get_product", product_id |-> product_id]
    /\ response' =
          IF \E i \in DOMAIN products_db : products_db[i].id = product_id
          THEN [status |-> 200,
                body |-> Some(products_db[CHOOSE i \in DOMAIN products_db :
                            /\ products_db[i].id = product_id
                            /\ \A j \in 1..(i - 1) : products_db[j].id # product_id])]
          ELSE HTTPException(404)
    /\ UNCHANGED <<app, pydantic, tasks, semana2, semana3, semana4>>

routes_create_user(user) ==
    /\ app = "semana3"
    /\ Len(users_db) < MaxRows
    /\ request' = [op |-> "create_user", user |-> user]
    /\ IF User(user) = None
       THEN /\ response' = HTTPException(422)
            /\ UNCHANGED users_db
       ELSE /\ users_db' = Append(users_db, Val(User(user)))
            /\ response' = [status |-> 200, body |-> User(user)]
    /\ UNCHANGED <<app, pydantic, tasks, semana2, products_db, semana4>>

routes_list_users ==
    /\ app = "semana3"
    /\ request' = [op |-> "list_users"]
    /\ response' = [status |-> 200, body |-> Some(users_db)]
    /\ UNCHANGED <<app, pydantic, tasks, semana2, semana3, semana4>>

\* ------------------------------------------------------ semana4: SQLite
\* INTEGER PRIMARY KEY without AUTOINCREMENT: one more than the largest rowid
next_id(table) ==
    IF table = <<>> THEN 1
    ELSE 1 + (CHOOSE m \in {table[i].id : i \in DOMAIN table} :
                \A i \in DOMAIN table : table[i].id <= m)

\* main.py UserBase / UserCreate: Field constraints only, no validator
UserCreate(user) == IF UserFields(user) THEN Some(user) ELSE None

\* POST /users; the unique index on email makes commit() raise IntegrityError
create_user(user) ==
    /\ app = "semana4"
    /\ Len(users) < MaxRows
    /\ request' = [op |-> "create_user", user |-> user]
    /\ IF UserCreate(user) = None
       THEN /\ response' = HTTPException(422)
            /\ UNCHANGED users
       ELSE IF \E i \in DOMAIN users : users[i].email = user.email
       THEN /\ response' = HTTPException(500)
            /\ UNCHANGED users
       ELSE LET db_user == [id |-> next_id(users),
                            username |-> Val(UserCreate(user)).username,
                            email |-> user.email, age |-> user.age,
                            phone |-> user.phone]
            IN  /\ users' = Append(users, db_user)
                /\ response' = [status |-> 200, body |-> Some(db_user)]
    /\ UNCHANGED <<app, pydantic, tasks, semana2, semana3, categorias, productos>>

list_users ==
    /\ app = "semana4"
    /\ request' = [op |-> "list_users"]
    /\ response' = [status |-> 200, body |-> Some(users)]
    /\ UNCHANGED <<app, pydantic, tasks, semana2, semana3, semana4>>

\* db.query(T).filter(T.id == id).first(): the row's index, 0 for None
first_by_id(table, id) ==
    IF \E i \in DOMAIN table : table[i].id = id
    THEN CHOOSE i \in DOMAIN table : table[i].id = id
    ELSE 0

obtener_categoria(categoria_id) == first_by_id(categorias, categoria_id)

obtener_producto(producto_id) == first_by_id(productos, producto_id)

\* Python truth value of an Optional[int]
truthy(o) == o # None /\ Val(o) # 0

\* POST /categorias/; nombre carries a unique index
crear_categoria_endpoint(categoria) ==
    /\ app = "semana4"
    /\ Len(categorias) < MaxRows
    /\ request' = [op |-> "crear_categoria", categoria |-> categoria]
    /\ IF \E i \in DOMAIN categorias : categorias[i].nombre = categoria.nombre
       THEN /\ response' = HTTPException(500)
            /\ UNCHANGED categorias
       ELSE LET db_categoria == [id |-> next_id(categorias),
                                 nombre |-> categoria.nombre,
                                 descripcion |-> categoria.descripcion]
            IN  /\ categorias' = Append(categorias, db_categoria)
                /\ response' = [status |-> 200, body |-> Some(db_categoria)]
    /\ UNCHANGED <<app, pydantic, tasks, semana2, semana3, users, productos>>

\* ProductoCreate: nombre, precio and descripcion are required
ProductoCreate(producto) ==
    producto.nombre # None /\ producto.precio # None /\ producto.descripcion # None

\* the NOT NULL columns of table productos
not_null(row) ==
    row.nombre # None /\ row.precio # None /\ row.descripcion # None

\* the reference check of crear_producto and actualizar_producto:
\* TRUE when HTTPException(400) is raised
categoria_no_existe(categoria_id) ==
    truthy(categoria_id) /\ obtener_categoria(Val(categoria_id)) = 0

\* POST /productos/ -> crear_producto.  SQLite does not enforce the foreign
\* key (PRAGMA foreign_keys is off), so any categoria_id can be stored.
crear_producto_endpoint(producto) ==
    /\ app = "semana4"
    /\ Len(productos) < MaxRows
    /\ request' = [op |-> "crear_producto", producto |-> producto]
    /\ IF ~ProductoCreate(producto)
       THEN /\ response' = HTTPException(422)
            /\ UNCHANGED productos
       ELSE IF categoria_no_existe(producto.categoria_id)
       THEN /\ response' = HTTPException(400)
            /\ UNCHANGED productos
       ELSE LET db_producto == [id |-> next_id(productos),
                                nombre |-> producto.nombre,
                                precio |-> producto.precio,
                                descripcion |-> producto.descripcion,
                                categoria_id |-> producto.categoria_id]
            IN  /\ productos' = Append(productos, db_producto)
                /\ response' = [status |-> 200, body |-> Some(db_producto)]
    /\ UNCHANGED <<app, pydantic, tasks, semana2, semana3, users, categorias>>

\* GET /productos/{producto_id}
obtener_producto_endpoint(producto_id) ==
    /\ app = "semana4"
    /\ request' = [op |-> "obtener_producto", producto_id |-> producto_id]
    /\ response' =
          IF obtener_producto(producto_id) # 0
          THEN [status |-> 200, body |-> Some(productos[obtener_producto(producto_id)])]
          ELSE HTTPException(404)
    /\ UNCHANGED <<app, pydantic, tasks, semana2, semana3, semana4>>

\* the loop `for key, value in producto.dict(exclude_unset=True).items():
\* setattr(db_producto, key, value)`
setattrs(db_producto, producto) ==
    [k \in DOMAIN db_producto |->
        IF k \in producto.set THEN producto.val[k] ELSE db_producto[k]]

\* PATCH /productos/{producto_id} -> actualizar_producto; a NULL written to a
\* NOT NULL column makes commit() raise and the session is rolled back
actualizar_producto_endpoint(producto_id, producto) ==
    /\ app = "semana4"
    /\ request' = [op |-> "actualizar_producto", producto_id |-> producto_id,
                   producto |-> producto]
    /\ IF obtener_producto(producto_id) = 0
       THEN /\ response' = HTTPException(404)
            /\ UNCHANGED productos
       ELSE IF categoria_no_existe(producto.val.categoria_id)
       THEN /\ response' = HTTPException(400)
            /\ UNCHANGED productos
       ELSE LET idx == obtener_producto(producto_id)
                db_producto == setattrs(productos[idx], producto)
            IN  IF ~not_null(db_producto)
                THEN /\ response' = HTTPException(500)
                     /\ UNCHANGED productos
                ELSE /\ productos' = [productos EXCEPT ![idx] = db_producto]
                     /\ response' = [status |-> 200, body |-> Some(db_producto)]
    /\ UNCHANGED <<app, pydantic, tasks, semana2, semana3, users, categorias>>

\* DELETE /productos/{producto_id} -> eliminar_producto
eliminar_producto_endpoint(producto_id) ==
    /\ app = "semana4"
    /\ request' = [op |-> "eliminar_producto", producto_id |-> producto_id]
    /\ IF obtener_producto(producto_id) # 0
       THEN /\ productos' = pop(productos, obtener_producto(producto_id))
            /\ response' = [status |-> 200, body |-> Some(producto_id)]
       ELSE /\ response' = HTTPException(404)
            /\ UNCHANGED productos
    /\ UNCHANGED <<app, pydantic, tasks, semana2, semana3, users, categorias>>

\* SQLite LIKE: "%" matches any run of characters, "_" any one character,
\* letters compare without regard to case
RECURSIVE like(_, _)
like(pattern, s) ==
    IF pattern = <<>> THEN s = <<>>
    ELSE IF Head(pattern) = "%"
    THEN \E k \in 0..Len(s) : like(Tail(pattern), SubSeq(s, k + 1, Len(s)))
    ELSE /\ s # <<>>
         /\ Head(pattern) = "_" \/ LowerChar(Head(pattern)) = LowerChar(Head(s))
         /\ like(Tail(pattern), Tail(s))

\* Column.contains(q): column LIKE '%' || q || '%', q not escaped
contains(column, q) == like(<<"%">> \o q \o <<"%">>, column)

\* filter(or_(nombre.contains(q), descripcion.contains(q))).all()
RECURSIVE filter_productos(_, _)
filter_productos(table, q) ==
    IF table = <<>> THEN <<>>
    ELSE IF contains(Val(Head(table).nombre), q)
            \/ contains(Val(Head(table).descripcion), q)
         THEN <<Head(table)>> \o filter_productos(Tail(table), q)
         ELSE filter_productos(Tail(table), q)

\* GET /productos/buscar/
buscar_productos_endpoint(q) ==
    /\ app = "semana4"
    /\ request' = [op |-> "buscar_productos", q |-> q]
    /\ response' =
          IF Len(q) < 1
          THEN HTTPException(422)
          ELSE [status |-> 200, body |-> Some(filter_productos(productos, q))]
    /\ UNCHANGED <<app, pydantic, tasks, semana2, semana3, semana4>>

\* ------------------------------------------------------------- claims
ProductoFields == {"nombre", "precio", "descripcion", "categoria_id"}

\* C1: no two records held in the same collection have the same identifier.
C1_UniqueIds ==
    /\ \A i, j \in DOMAIN books_db : i # j => books_db[i].id # books_db[j].id
    /\ \A i, j \in DOMAIN products_db : i # j => products_db[i].id # products_db[j].id

\* C2: the ids returned by create_book are strictly increasing over the
\* history of the collection, so none is returned twice.
C2_IdsIncreasing ==
    \A i, j \in DOMAIN issued : i < j => issued[i] < issued[j]

\* a field present in a patch payload that create would refuse
ViolatesCreateConstraint(updated) ==
    \/ /\ "rating" \in updated.set /\ updated.val.rating # None
       /\ Val(updated.val.rating) \notin 1..5
    \/ /\ "pages" \in updated.set /\ updated.val.pages # None
       /\ Val(updated.val.pages) \notin 1..10000
    \/ /\ "title" \in updated.set /\ updated.val.title # None
       /\ Len(Val(updated.val.title)) \notin 1..200

\* C3: a patch of an existing book whose payload carries a value that create
\* would refuse (rating = 6) is answered with a validation error, and the
\* refused value is not stored.
C3_PatchRevalidates ==
    (/\ request.op = "patch_book"
     /\ \E i \in DOMAIN books_db : books_db[i].id = request.book_id
     /\ ViolatesCreateConstraint(request.updated))
    => /\ response.status = 422
       /\ \A i \in DOMAIN books_db :
             books_db[i].rating # None => Val(books_db[i].rating) \in 1..5

\* C4: an accepted patch overwrites exactly the fields present in the
\* payload, keeps every absent field, changes otherwise only updated_at,
\* returns the patched record and leaves every other record unchanged
\* (patch_book on books_db, actualizar_producto on table productos); a patch
\* changes the collection in no other way.
C4_PatchFrame ==
    [][/\ (request'.op = "patch_book" /\ books_db' # books_db) =>
            response'.status \in {200, 500}
       /\ (request'.op = "patch_book" /\ response'.status \in {200, 500}) =>
            \E idx \in DOMAIN books_db :
                /\ books_db[idx].id = request'.book_id
                /\ DOMAIN books_db' = DOMAIN books_db
                /\ \A i \in DOMAIN books_db : i # idx => books_db'[i] = books_db[i]
                /\ \A k \in BookFields :
                      books_db'[idx][k] =
                          IF k \in request'.updated.set
                          THEN request'.updated.val[k]
                          ELSE books_db[idx][k]
                /\ books_db'[idx].id = books_db[idx].id
                /\ books_db'[idx].created_at = books_db[idx].created_at
                /\ response'.status = 200 => response'.body = {books_db'[idx]}
       /\ (request'.op = "actualizar_producto" /\ response'.status = 200) =>
            \E idx \in DOMAIN productos :
                /\ productos[idx].id = request'.producto_id
                /\ DOMAIN productos' = DOMAIN productos
                /\ \A i \in DOMAIN productos : i # idx => productos'[i] = productos[i]
                /\ \A k \in ProductoFields :
                      productos'[idx][k] =
                          IF k \in request'.producto.set
                          THEN request'.producto.val[k]
                          ELSE productos[idx][k]
                /\ productos'[idx].id = productos[idx].id
                /\ categorias' = categorias
                /\ response'.body = {productos'[idx]}
      ]_vars

\* C4 witness: a patch of the title alone was accepted on a book whose
\* rating had been set, next to another book.
C4_Witness ==
    /\ request.op = "patch_book" /\ response.status = 200
    /\ request.updated.set = {"title"}
    /\ Val(response.body).rating = {5}
    /\ Val(response.body).title = {<<"B">>}
    /\ Len(books_db) >= 2

\* C5: across full updates and patches every book keeps its id and its
\* created_at; a full update gives every other field the payload's value.
C5_IdAndCreatedAtKept ==
    [][request'.op \in {"update_book", "patch_book"} =>
        /\ DOMAIN books_db' = DOMAIN books_db
        /\ \A i \in DOMAIN books_db :
              /\ books_db'[i].id = books_db[i].id
              /\ books_db'[i].created_at = books_db[i].created_at
        /\ (request'.op = "update_book" /\ response'.status = 200) =>
              \E idx \in DOMAIN books_db :
                  /\ books_db[idx].id = request'.book_id
                  /\ \A k \in BookFields : books_db'[idx][k] = request'.book[k]
                  /\ \A i \in DOMAIN books_db : i # idx => books_db'[i] = books_db[i]
      ]_vars

\* C5 witness: a full update was accepted on a book created earlier, after
\* that book had been patched.
C5_Witness ==
    /\ request.op = "update_book" /\ response.status = 200
    /\ Val(response.body).created_at = 1
    /\ Val(response.body).updated_at = 3
    /\ Val(response.body).title = {<<"b">>}

\* C6: a product create or update whose category reference names no existing
\* category is rejected with the dangling-reference error (400), and no
\* stored product references a category that does not exist.
C6_DanglingRejected ==
    /\ \A i \in DOMAIN productos :
          productos[i].categoria_id # None =>
              \E j \in DOMAIN categorias :
                  categorias[j].id = Val(productos[i].categoria_id)
    /\ (/\ request.op = "crear_producto"
        /\ request.producto.categoria_id # None
        /\ \A j \in DOMAIN categorias :
              categorias[j].id # Val(request.producto.categoria_id))
       => response.status = 400

\* C7: deleting an id that no record carries answers NotFound (404) and
\* leaves the collection as it was, so that the same delete repeated is
\* answered NotFound again (delete_book, eliminar_producto).
C7_DeleteMissing ==
    [][/\ (/\ request'.op = "delete_book"
           /\ \A i \in DOMAIN books_db : books_db[i].id # request'.book_id)
          => /\ response'.status = 404
             /\ books_db' = books_db
             /\ \A i \in DOMAIN books_db' : books_db'[i].id # request'.book_id
       /\ (/\ request'.op = "eliminar_producto"
           /\ \A i \in DOMAIN productos : productos[i].id # request'.producto_id)
          => /\ response'.status = 404
             /\ productos' = productos
             /\ categorias' = categorias
      ]_vars

\* C7 witness: a delete of an id that no stored book carries was answered
\* NotFound while other books are stored.
C7_Witness ==
    /\ request.op = "delete_book" /\ response.status = 404
    /\ Len(books_db) >= 2
    /\ \A i \in DOMAIN books_db : books_db[i].id # request.book_id

\* the query is a substring of s, letters compared without regard to case
MatchesQuery(q, s) ==
    \E i \in 1..(Len(s) - Len(q) + 1) :
        \A k \in 1..Len(q) : LowerChar(s[i + k - 1]) = LowerChar(q[k])

FirstN(seq, n) == [i \in 1..(IF n < Len(seq) THEN n ELSE Len(seq)) |-> seq[i]]

\* C10: a search answers with exactly the first `limit` records, in
\* collection order, whose searched text field contains the query without
\* regard to case (the book searches on title and on author; the product
\* search on one text field).
C10_SearchExact ==
    /\ (/\ request.op \in {"search_books_title", "search_books_author"}
        /\ Len(request.q) >= 1 /\ request.limit \in 1..50)
       => /\ response.status = 200
          /\ Val(response.body) =
                FirstN(SelectSeq(books_db,
                           LAMBDA b : MatchesQuery(request.q, Val(b[request.field]))),
                       request.limit)
    /\ (request.op = "buscar_productos" /\ Len(request.q) >= 1)
       => /\ response.status = 200
          /\ \E f \in {"nombre", "descripcion"} :
                Val(response.body) =
                    SelectSeq(productos, LAMBDA r : MatchesQuery(request.q, Val(r[f])))

\* a word starts at the first character and after every character that is
\* not a letter
StartsWord(s, i) == i = 1 \/ ~(s[i - 1] \in Range(Lowers) \cup Range(Uppers))

\* t is s in title case: the same letters, upper case at the start of every
\* word and lower case elsewhere
IsTitleCaseOf(t, s) ==
    /\ Len(t) = Len(s)
    /\ \A i \in DOMAIN s :
          /\ LowerChar(t[i]) = LowerChar(s[i])
          /\ StartsWord(s, i) => t[i] \notin Range(Lowers)
          /\ ~StartsWord(s, i) => t[i] \notin Range(Uppers)

\* C8: after every accepted user creation the stored username is the
\* title-cased form of the submitted one, in the semana-3 route and in the
\* semana4 endpoint, and that is what a later listing returns.
C8_UsernameTitleCased ==
    /\ (request.op = "create_user" /\ response.status = 200) =>
          /\ app = "semana3" =>
                IsTitleCaseOf(users_db[Len(users_db)].username, request.user.username)
          /\ app = "semana4" =>
                IsTitleCaseOf(users[Len(users)].username, request.user.username)
    /\ (request.op = "list_users" /\ response.status = 200) =>
          \A i \in DOMAIN Val(response.body) :
              IsTitleCaseOf(Val(response.body)[i].username,
                            Val(response.body)[i].username)

\* the submitted ISBN without its hyphens and spaces
Normalized(raw) == SelectSeq(raw, LAMBDA c : c \notin {"-", " "})

TenOrThirteenDigits(raw) ==
    /\ Len(Normalized(raw)) \in {10, 13}
    /\ \A i \in DOMAIN Normalized(raw) : Normalized(raw)[i] \in Digits

\* C9 as stated: a book creation carrying an ISBN succeeds exactly when the
\* ISBN without hyphens and spaces is 10 or 13 digits; a refused creation
\* adds no book.
C9_IsbnExactlyDigits ==
    (request.op = "create_book" /\ request.book.isbn # None) =>
        /\ response.status = 200 <=> TenOrThirteenDigits(Val(request.book.isbn))
        /\ response.status # 200 => books_db = <<>>

\* C9 as amended: a book creation carrying an ISBN succeeds exactly when the
\* submitted ISBN is 10 to 17 characters long and, without its hyphens and
\* spaces, is 10 or 13 digits; an accepted creation stores the ISBN as
\* submitted, a refused one is a validation error and adds no book.
C9_IsbnAccepted ==
    (request.op = "create_book" /\ request.book.isbn # None) =>
        LET raw == Val(request.book.isbn)
            ok == Len(raw) \in 10..17 /\ TenOrThirteenDigits(raw)
        IN  /\ response.status = 200 <=> ok
            /\ ok => /\ Len(books_db) = 1
                     /\ books_db[1].isbn = {raw}
                     /\ response.body = {books_db[1]}
            /\ ~ok => response.status = 422 /\ books_db = <<>>

\* C9 witness: a 13-digit ISBN written with four hyphens was accepted.
C9_Witness ==
    /\ request.op = "create_book" /\ response.status = 200
    /\ request.book.isbn # None
    /\ Len(Val(request.book.isbn)) = 17
    /\ Len(Normalized(Val(request.book.isbn))) = 13
    /\ Len(books_db) = 1

\* C11: right after a delete_book(id) that succeeded, get_book(id) and a
\* second delete_book(id) are both answered NotFound (404).
C11_DeletedIsGone ==
    [][(/\ request.op = "delete_book" /\ response.status = 200
        /\ request'.op \in {"get_book", "delete_book"}
        /\ request'.book_id = request.book_id)
       => response'.status = 404
      ]_vars

\* C12: when several create_book requests are in flight and interleave at
\* their await, with no delete, every created book carries the id equal to
\* its position in books_db, the requests are answered with distinct ids,
\* each with the book stored at that position, and a backup task changes
\* neither books_db nor any answer.
C12_ConcurrentCreates ==
    [][/\ \A i \in DOMAIN books_db' : books_db'[i].id = i
       /\ \A r \in Requests :
             replies'[r].status = 200 =>
                 /\ Val(replies'[r].body).id \in DOMAIN books_db'
                 /\ books_db'[Val(replies'[r].body).id] = Val(replies'[r].body)
                 /\ \A q \in Requests \ {r} :
                       replies'[q].status = 200 =>
                           Val(replies'[q].body).id # Val(replies'[r].body).id
       /\ \A r \in Requests :
             (backup[r] = "sleeping" /\ backup'[r] = "finished") =>
                 /\ books_db' = books_db
                 /\ replies' = replies
      ]_vars

\* C12 witness: request 2 overtook request 1 at the await (ids 1 and 2 the
\* other way round) while request 3 is still suspended, and one backup task
\* has finished while another is still asleep.
C12_Witness ==
    /\ pc[1] = "done" /\ pc[2] = "done" /\ pc[3] = "awaiting"
    /\ replies[1].status = 200 /\ replies[2].status = 200
    /\ Val(replies[1].body).isbn # None /\ Val(replies[2].body).isbn # None
    /\ Val(replies[1].body).id = 2 /\ Val(replies[2].body).id = 1
    /\ backup[1] = "sleeping" /\ backup[2] = "finished"

\* ------------------------------------------------------------- inputs
DefaultBook ==
    [title |-> Some(<<"A", "b">>), author |-> Some(<<"B", "a">>), isbn |-> None,
     genre |-> Some("other"), pages |-> None, publication_year |-> None,
     status |-> Some("to_read"), rating |-> None, notes |-> None]

BookInputs ==
    {DefaultBook,
     [DefaultBook EXCEPT !.title = Some(<<"b">>), !.rating = Some(5)],
     [DefaultBook EXCEPT !.title = Some(<<>>)]}

NoBook == [k \in BookFields |-> None]

PatchInputs ==
    {[set |-> {}, val |-> NoBook],
     [set |-> {"rating"}, val |-> [NoBook EXCEPT !.rating = Some(6)]],
     [set |-> {"title"}, val |-> [NoBook EXCEPT !.title = Some(<<"B">>)]],
     [set |-> BookFields, val |-> [DefaultBook EXCEPT !.rating = Some(6)]],
     [set |-> BookFields, val |-> [DefaultBook EXCEPT !.title = None]]}

BookIds == 1..MaxClock

Queries == {<<>>, <<"a">>}
Limits == {0, 1}

NoProducto ==
    [nombre |-> None, precio |-> None, descripcion |-> None, categoria_id |-> None]

ProductoInputs ==
    {[nombre |-> Some(nd[1]), precio |-> Some(10), descripcion |-> Some(nd[2]),
      categoria_id |-> c] :
        nd \in {<<<<"A", "b">>, <<"b">>>>, <<<<"b">>, <<"a", "-">>>>},
        c \in {None, Some(0), Some(1), Some(999)}}

ProductoUpdateInputs ==
    {[set |-> {}, val |-> NoProducto],
     [set |-> {"categoria_id"}, val |-> [NoProducto EXCEPT !.categoria_id = Some(999)]],
     [set |-> {"categoria_id"}, val |-> [NoProducto EXCEPT !.categoria_id = Some(1)]],
     [set |-> {"descripcion"}, val |-> [NoProducto EXCEPT !.descripcion = Some(<<"B">>)]],
     [set |-> {"nombre", "categoria_id"}, val |-> NoProducto]}

CategoriaInputs == {[nombre |-> <<"a">>, descripcion |-> <<"b">>]}

ProductoIds == 1..(MaxRows + 1)

BuscarQueries == {<<>>, <<"a">>, <<"_">>}

NameChars == {"a", "B", " "}

NameInputs == UNION {[1..n -> NameChars] : n \in 2..MaxNameLen}

UserInputs ==
    {[id |-> 1, username |-> n, email |-> e, age |-> None, phone |-> None] :
        n \in NameInputs, e \in {<<"a", "@", "b", ".", "c">>, <<"a", "b">>}}

ProductInputs ==
    {[id |-> i, name |-> n, price |-> 10, quantity |-> q] :
        i \in 1..MaxRows, n \in {<<"A", "b">>, <<"a">>}, q \in {0, -1}}

IsbnDigits == <<"9", "7", "8", "0", "1", "3", "4", "6", "8", "5", "9", "9", "1">>

RECURSIVE Interleave(_, _)
Interleave(s, seps) ==
    IF seps = <<>> THEN s
    ELSE IF s = <<>> THEN seps
    ELSE <<Head(s), Head(seps)>> \o Interleave(Tail(s), Tail(seps))

\* ISBN strings: d digits (the six largest counts), then x times the check character "X", with h
\* hyphens and s spaces either spread between the characters or at the end
IsbnInputs ==
    {IF spread THEN Interleave(body, seps) ELSE body \o seps :
        body \in {[i \in 1..d |-> IsbnDigits[((i - 1) % 13) + 1]]
                      \o [i \in 1..x |-> "X"] : d \in (MaxDigits - 5)..MaxDigits, x \in 0..1},
        seps \in {[i \in 1..h |-> "-"] \o [i \in 1..sp |-> " "] :
                      h \in 0..MaxHyphens, sp \in 0..MaxSpaces},
        spread \in BOOLEAN}

\* semana-3 is written against pydantic 1 (Field(regex=...)), semana4/main.py
\* against pydantic 2 (Field(pattern=...), from_attributes); semana-2 runs
\* under both
Versions(a) ==
    IF a = "semana2" THEN {1, 2} ELSE IF a = "semana3" THEN {1} ELSE {2}

\* no create_book coroutine has started
InitTasks ==
    /\ pc = [r \in Requests |-> "new"]
    /\ pending = [r \in Requests |-> None]
    /\ replies = [r \in Requests |-> [status |-> 0, body |-> None]]
    /\ backup = [r \in Requests |-> "none"]

Init ==
    /\ app \in {"semana2", "semana4"}
    /\ pydantic \in Versions(app)
    /\ InitTasks
    /\ books_db = <<>>
    /\ clock = 0
    /\ issued = <<>>
    /\ products_db = <<>>
    /\ users_db = <<>>
    /\ users = <<>>
    /\ categorias = <<>>
    /\ productos = <<>>
    /\ request = [op |-> "none"]
    /\ response = [status |-> 0, body |-> None]

Next ==
    \/ \E book \in BookInputs : create_book(book)
    \/ list_books
    \/ \E book_id \in BookIds : get_book(book_id)
    \/ \E book_id \in BookIds, updated \in BookInputs : update_book(book_id, updated)
    \/ \E book_id \in BookIds, updated \in PatchInputs : patch_book(book_id, updated)
    \/ \E book_id \in BookIds : delete_book(book_id)
    \/ \E q \in Queries, limit \in Limits : search_books_title(q, limit)
    \/ \E q \in Queries, limit \in Limits : search_books_author(q, limit)
    \/ \E categoria \in CategoriaInputs : crear_categoria_endpoint(categoria)
    \/ \E producto \in ProductoInputs : crear_producto_endpoint(producto)
    \/ \E producto_id \in ProductoIds : obtener_producto_endpoint(producto_id)
    \/ \E producto_id \in ProductoIds, producto \in ProductoUpdateInputs :
          actualizar_producto_endpoint(producto_id, producto)
    \/ \E producto_id \in ProductoIds : eliminar_producto_endpoint(producto_id)
    \/ \E q \in BuscarQueries : buscar_productos_endpoint(q)

Spec == Init /\ [][Next]_vars

\* the semana-3 routers and the semana4 user endpoints
InitRoutes ==
    /\ app \in {"semana3", "semana4"}
    /\ pydantic \in Versions(app)
    /\ InitTasks
    /\ books_db = <<>>
    /\ clock = 0
    /\ issued = <<>>
    /\ products_db = <<>>
    /\ users_db = <<>>
    /\ users = <<>>
    /\ categorias = <<>>
    /\ productos = <<>>
    /\ request = [op |-> "none"]
    /\ response = [status |-> 0, body |-> None]

NextRoutes ==
    \/ \E product \in ProductInputs : create_product(product)
    \/ \E product_id \in 1..MaxRows : get_product(product_id)
    \/ \E user \in UserInputs : routes_create_user(user)
    \/ routes_list_users
    \/ \E user \in UserInputs : create_user(user)
    \/ list_users

SpecRoutes == InitRoutes /\ [][NextRoutes]_vars

\* book creation over the ISBN strings, one book at a time
InitIsbn == Init /\ app = "semana2"

NextIsbn ==
    \/ \E isbn \in IsbnInputs :
          /\ books_db = <<>>
          /\ create_book([DefaultBook EXCEPT !.isbn = Some(isbn)])
    \/ \E book_id \in {1} : delete_book(book_id)

SpecIsbn == InitIsbn /\ [][NextIsbn]_vars

\* create_book requests in flight at once, with their backup tasks
ConcurrentInputs ==
    {DefaultBook,
     [DefaultBook EXCEPT !.isbn = Some(IsbnDigits)],
     [DefaultBook EXCEPT !.title = Some(<<>>)]}

InitConcurrent == Init /\ app = "semana2"

NextConcurrent ==
    \/ \E r \in Requests, book \in ConcurrentInputs : create_book_call(r, book)
    \/ \E r \in Requests : create_book_resume(r)
    \/ \E r \in Requests : backup_book_data(r)

SpecConcurrent == InitConcurrent /\ [][NextConcurrent]_vars
====
